---- MODULE Spec2Model ----
(***************************************************************************)
(* Authentication, authorization, registration and content management of   *)
(* the portfolio CMS.                                                      *)
(*                                                                         *)
(* The server is an Express application.  Every `await` of a handler is a  *)
(* point where another request may run, so the registration handler, whose *)
(* awaits read and write the users table, is modelled one await at a time. *)
(* Handlers whose awaits touch only rows that never change (users are      *)
(* never updated or deleted) or only the requesting session are one step.  *)
(*                                                                         *)
(* Spec is the account service from an empty database.  The content routes *)
(* are specified one family at a time (SiteSpec, ContactSpec, ...), each   *)
(* from a restart of the server over a database that already holds an      *)
(* administrator and a regular user.                                       *)
(***************************************************************************)
EXTENDS Naturals, Sequences, FiniteSets, TLC

(* ------------------------------------------------------------------ *)
(* Input domains                                                      *)
(* ------------------------------------------------------------------ *)

\* Browser sessions (client tokens); each has at most one request in flight.
Sessions == {"s1", "s2"}

Usernames == {"admin1", "bob"}
Emails == {"a@x.com", "b@x.com"}
Passwords == {"secret1", "secret2"}
\* number of values randomBytes(16) may draw for a salt
NumSalts == 1
Salts == 1..NumSalts

\* DEFAULT_SETUP_KEY fallback of registerRoutes
DefaultSetupKey == "changeme"
\* "" stands for an empty or absent setupKey (both are falsy in the handler)
Keys == {"", DefaultSetupKey, "newkey"}

SiteNames == {"Portfolio"}

\* session value of a session bound to no user
Anonymous == 0

VARIABLES
  started,        \* registerRoutes has run
  users,          \* the users table, in insertion order
  siteConfig,     \* the site_config table: a sequence of rows
  socialLinks,    \* the social_links table: a sequence of rows
  session,        \* session store: session -> bound user id, or Anonymous
  pc,             \* position of the request in flight of each session
  body,           \* req.body of the request in flight of each session
  req,            \* the request body that arrived with the last step, if one did
                  \* and the handler is not holding it in body
  resp,           \* the response sent by the last step, if it sent one
  db,             \* the content tables: a record of sequences of rows
  nextval,        \* last value drawn from the serial of each table with deletes
  mail            \* the notification the last step handed to the mailer, if any

vars == <<started, users, siteConfig, socialLinks, session, pc, body, req, resp,
          db, nextval, mail>>

\* the content store, which the account routes never touch
content == <<db, nextval>>

NoBody == [username |-> "", email |-> "", password |-> "", isAdmin |-> FALSE, setupKey |-> ""]

NoResp == [session |-> "none", route |-> "none", status |-> 0, json |-> [message |-> ""]]

\* no notification was handed to the mailer
NoMail == [to |-> "", outcome |-> "none"]

Respond(s, route, status, json) ==
  [session |-> s, route |-> route, status |-> status, json |-> json]

Message(m) == [message |-> m]

(* ------------------------------------------------------------------ *)
(* Credential service                                                 *)
(* ------------------------------------------------------------------ *)

\* A string is a sequence of tokens <<kind, payload>>; a buffer is a triple:
\* <<"key", password, salt>> is the key derived from a password and the
\* salt with that number (0 for the empty salt), <<"raw", "", n>> is any
\* other buffer of n bytes.

\* the length in bytes of a derived key
KeyLen == 64

Dot == <<".", <<"", "", 0>>>>

\* randomBytes(16).toString("hex") for the salt-th value of randomBytes
SaltString(salt) == << <<"salt", <<"", "", salt>>>> >>

\* the number of the salt a salt string holds
SaltOf(str) == IF str = <<>> THEN 0 ELSE str[1][2][3]

\* scrypt(password, salt, 64): an injective key derivation
scryptAsync(password, salt) == <<"key", password, SaltOf(salt)>>

ByteLength(buf) == IF buf[1] = "key" THEN KeyLen ELSE buf[3]

\* buf.toString("hex")
toHex(buf) == << <<"hex", buf>> >>

\* Buffer.from(str, "hex"): decoding stops at the first token that is not hex
fromHex(str) ==
  IF str # <<>> /\ str[1][1] = "hex" THEN str[1][2] ELSE <<"raw", "", 0>>

\* `${buf.toString("hex")}.${salt}` with the salt-th value of randomBytes
hashPassword(password, salt) ==
  toHex(scryptAsync(password, SaltString(salt))) \o <<Dot>> \o SaltString(salt)

\* the tokens of str before its first '.'
RECURSIVE BeforeDot(_)
BeforeDot(str) ==
  IF str = <<>> \/ Head(str) = Dot THEN <<>> ELSE <<Head(str)>> \o BeforeDot(Tail(str))

\* str.split("."): the parts between the '.'s, at least one
RECURSIVE split(_)
split(str) ==
  LET first == BeforeDot(str)
  IN  IF Len(first) = Len(str) THEN <<first>>
      ELSE <<first>> \o split(SubSeq(str, Len(first) + 2, Len(str)))

\* comparePasswords rejects: scrypt throws on the undefined salt of a
\* stored form without '.', timingSafeEqual on buffers of different lengths
comparePasswordsThrows(supplied, stored) ==
  LET parts == split(stored)
  IN  \/ Len(parts) < 2
      \/ ByteLength(fromHex(parts[1])) # ByteLength(scryptAsync(supplied, parts[2]))

\* fault: the keys compared by their salts alone
comparePasswordsSaltOnly(supplied, stored) ==
  LET parts == split(stored)
  IN  SaltOf(parts[2]) = fromHex(parts[1])[3]

\* what comparePasswords resolves to when it does not reject
comparePasswords(supplied, stored) ==
  LET parts == split(stored)
      hashed == parts[1]
      salt == parts[2]
      hashedBuf == fromHex(hashed)
      suppliedBuf == scryptAsync(supplied, salt)
  IN  hashedBuf = suppliedBuf

(* ------------------------------------------------------------------ *)
(* Storage                                                            *)
(* ------------------------------------------------------------------ *)

Rows(table) == {table[i] : i \in 1..Len(table)}

getUser(id) == {u \in Rows(users) : u.id = id}

getUserByUsername(username) == {u \in Rows(users) : u.username = username}

getUserByEmail(email) == {u \in Rows(users) : u.email = email}

checkAdminExists == \E u \in Rows(users) : u.isAdmin

\* fault: the users table declared without its unique() constraints
UsersNoConstraint(row) == TRUE

\* the unique() constraints of the users table
UsersUnique(row) ==
  /\ getUserByUsername(row.username) = {}
  /\ getUserByEmail(row.email) = {}

\* fault: isAdmin left to the column default instead of isCreatingAdmin
NewUserDefaultFlag(b, hashed, admin) ==
  [id |-> Len(users) + 1, username |-> b.username, password |-> hashed,
   email |-> b.email, isAdmin |-> FALSE]

\* fault: the flag taken as granted whatever the handler decided
NewUserAlwaysAdmin(b, hashed, admin) ==
  [id |-> Len(users) + 1, username |-> b.username, password |-> hashed,
   email |-> b.email, isAdmin |-> TRUE]

\* the row createUser inserts: id is the serial primary key
NewUser(b, hashed, admin) ==
  [id |-> Len(users) + 1, username |-> b.username, password |-> hashed,
   email |-> b.email, isAdmin |-> admin]

\* fault: the user record sent as it is stored
userWithPassword(user) == user

\* const { password, ...userWithoutPassword } = user
userWithoutPassword(user) ==
  [f \in (DOMAIN user) \ {"password"} |-> user[f]]

\* fault: the stored configuration sent whole
publicConfigWhole(config) == config

\* const { setupKey, ...publicConfig } = config
publicConfig(config) ==
  [f \in (DOMAIN config) \ {"setupKey"} |-> config[f]]

\* the content tables before any row is written
EmptyDb ==
  [hero |-> <<>>, about |-> <<>>, contactInfo |-> <<>>, portfolioInfo |-> <<>>,
   contactMessages |-> <<>>, skillCategories |-> <<>>, skills |-> <<>>,
   experiences |-> <<>>, experienceTechnologies |-> <<>>,
   projects |-> <<>>, projectTechnologies |-> <<>>]

\* the serial sequences of the tables whose rows can be deleted
NoSerial == [contactMessages |-> 0, skillCategories |-> 0, skills |-> 0]

(* ------------------------------------------------------------------ *)
(* Session / identity layer                                           *)
(* ------------------------------------------------------------------ *)

\* passport.deserializeUser: the user the session is bound to, if it exists
deserializeUser(s) == getUser(session[s])

isAuthenticated(s) == deserializeUser(s) # {}

ReqUser(s) == CHOOSE u \in deserializeUser(s) : TRUE

(* ------------------------------------------------------------------ *)
(* Initial state and startup                                          *)
(* ------------------------------------------------------------------ *)

Init ==
  /\ started = FALSE
  /\ users = <<>>
  /\ siteConfig = <<>>
  /\ socialLinks = <<>>
  /\ session = [s \in Sessions |-> Anonymous]
  /\ pc = [s \in Sessions |-> "idle"]
  /\ body = [s \in Sessions |-> NoBody]
  /\ req = NoBody
  /\ resp = NoResp
  /\ mail = NoMail
  /\ db = EmptyDb
  /\ nextval = NoSerial

\* fault: the default row written at every start
initializeSiteConfigAlways(table) ==
  <<[id |-> 1, siteName |-> "Portfolio", setupKey |-> DefaultSetupKey]>>

\* registerRoutes: getSiteConfig, and createSiteConfig when it found no row
initializeSiteConfig(table) ==
  IF table = <<>>
  THEN <<[id |-> 1, siteName |-> "Portfolio", setupKey |-> DefaultSetupKey]>>
  ELSE table

\* registerRoutes: create the site config when there is none
Startup ==
  /\ ~started
  /\ started' = TRUE
  /\ siteConfig' = initializeSiteConfig(siteConfig)
  /\ UNCHANGED <<users, socialLinks, session, pc, body, req, resp, mail, content>>

(* ------------------------------------------------------------------ *)
(* POST /api/register                                                 *)
(* ------------------------------------------------------------------ *)

\* the password each username registers with; logins try every password
PasswordOf(username) == IF username = "admin1" THEN "secret1" ELSE "secret2"

\* non-admin bodies carry no setup key
RegisterBodies ==
  {b \in [username : Usernames, email : Emails, password : Passwords,
          isAdmin : BOOLEAN, setupKey : Keys] :
     /\ b.password = PasswordOf(b.username)
     /\ b.isAdmin \/ b.setupKey = ""}

\* request body b arrived and was answered with r in the same step
\* (b is NoBody for requests without a body and for requests held in body)
Reply(b, r) ==
  /\ req' = b
  /\ resp' = r
  /\ mail' = NoMail

\* the handler of session s awaits at position p, holding request body b
Await(s, p, b) ==
  /\ pc' = [pc EXCEPT ![s] = p]
  /\ body' = [body EXCEPT ![s] = b]
  /\ Reply(NoBody, NoResp)

\* the handler of session s ends its request (body b) with response r
Finish(s, b, r) ==
  /\ pc' = [pc EXCEPT ![s] = "idle"]
  /\ body' = [body EXCEPT ![s] = NoBody]
  /\ Reply(b, r)

\* const existingUser = await storage.getUserByUsername(req.body.username)
existingUser(b) == getUserByUsername(b.username)

\* fault: the email lookup left out
existingEmailSkipped(b) == {}

\* const existingEmail = await storage.getUserByEmail(req.body.email)
existingEmail(b) == getUserByEmail(b.email)

\* a POST /api/register with body b arrives; first await: the username check
Register(s, b) ==
  /\ started
  /\ pc[s] = "idle"
  /\ IF existingUser(b) # {}
     THEN Finish(s, b, Respond(s, "register", 400, Message("Username already exists")))
     ELSE Await(s, "checkEmail", b)
  /\ UNCHANGED <<started, users, siteConfig, socialLinks, session, content>>

\* second await: the email check
RegisterCheckEmail(s) ==
  /\ pc[s] = "checkEmail"
  /\ IF existingEmail(body[s]) # {}
     THEN Finish(s, NoBody, Respond(s, "register", 400, Message("Email already exists")))
     ELSE Await(s, "gate", body[s])
  /\ UNCHANGED <<started, users, siteConfig, socialLinks, session, content>>

\* fault: the key compared with the startup default, not the stored config
SetupKeyAcceptedDefault(setupKey, config) ==
  /\ setupKey # ""
  /\ setupKey = DefaultSetupKey

\* !setupKey || setupKey !== config.setupKey, negated
SetupKeyAccepted(setupKey, config) ==
  /\ setupKey # ""
  /\ setupKey = config.setupKey

\* fault: the bootstrap check left out
RegularAlwaysAllowed == TRUE

\* the else branch: regular users only once an administrator exists
RegularAllowed == checkAdminExists

\* third await: getSiteConfig (admin intent) or checkAdminExists (otherwise)
RegisterGate(s) ==
  /\ pc[s] = "gate"
  /\ LET b == body[s]
         isCreatingAdmin == b.isAdmin
     IN  IF isCreatingAdmin
         THEN IF siteConfig = <<>>
              THEN Finish(s, NoBody, Respond(s, "register", 400, Message("Site not configured properly")))
              ELSE IF ~SetupKeyAccepted(b.setupKey, siteConfig[1])
                   THEN Finish(s, NoBody, Respond(s, "register", 403, Message("Invalid setup key")))
                   ELSE Await(s, "create", b)
         ELSE IF ~RegularAllowed
              THEN Finish(s, NoBody, Respond(s, "register", 400, Message("Please create an admin account first")))
              ELSE Await(s, "create", b)
  /\ UNCHANGED <<started, users, siteConfig, socialLinks, session, content>>

\* fault: req.login left out
LoginSessionSkipped(s, user) == session

\* req.login(user): passport.serializeUser binds the session to user.id
LoginSession(s, user) == [session EXCEPT ![s] = user.id]

\* hashPassword, storage.createUser, req.login, 201; a violated unique
\* constraint makes createUser throw, and the catch hands it to next(error)
RegisterCreate(s) ==
  /\ pc[s] = "create"
  /\ \E salt \in Salts :
       LET b == body[s]
           user == NewUser(b, hashPassword(b.password, salt), b.isAdmin)
       IN  IF UsersUnique(user)
           THEN /\ users' = Append(users, user)
                /\ session' = LoginSession(s, user)
                /\ Finish(s, NoBody, Respond(s, "register", 201, userWithoutPassword(user)))
           ELSE /\ Finish(s, NoBody, Respond(s, "register", 500, Message("Internal Server Error")))
                /\ UNCHANGED <<users, session>>
  /\ UNCHANGED <<started, siteConfig, socialLinks, content>>

(* ------------------------------------------------------------------ *)
(* POST /api/login, POST /api/logout, GET /api/user                   *)
(* ------------------------------------------------------------------ *)

\* fault: the password comparison left out
VerifyCallbackNoPassword(username, password) == getUserByUsername(username)

\* LocalStrategy verify callback: comparePasswords rejected, done(error)
VerifyError(username, password) ==
  \E u \in getUserByUsername(username) : comparePasswordsThrows(password, u.password)

\* LocalStrategy verify callback: the user, or none for done(null, false)
VerifyCallback(username, password) ==
  {u \in getUserByUsername(username) :
     /\ ~comparePasswordsThrows(password, u.password)
     /\ comparePasswords(password, u.password)}

LoginBodies ==
  [username : Usernames, email : {""}, password : Passwords,
   isAdmin : {FALSE}, setupKey : {""}]

\* POST /api/login: passport.authenticate("local") and its callback
Login(s, b) ==
  /\ started
  /\ pc[s] = "idle"
  /\ LET found == VerifyCallback(b.username, b.password)
     IN  IF VerifyError(b.username, b.password)
         THEN /\ Reply(b, Respond(s, "login", 500, Message("Internal Server Error")))
              /\ UNCHANGED session
         ELSE IF found = {}
         THEN /\ Reply(b, Respond(s, "login", 401, Message("Invalid credentials")))
              /\ UNCHANGED session
         ELSE LET user == CHOOSE u \in found : TRUE
              IN  /\ session' = LoginSession(s, user)
                  /\ Reply(b, Respond(s, "login", 200, userWithoutPassword(user)))
  /\ UNCHANGED <<started, users, siteConfig, socialLinks, pc, body, content>>

\* req.logout: the session is no longer bound to a user
LogoutSession(s) == [session EXCEPT ![s] = Anonymous]

Logout(s) ==
  /\ started
  /\ pc[s] = "idle"
  /\ session' = LogoutSession(s)
  /\ Reply(NoBody, Respond(s, "logout", 200, [text |-> "OK"]))
  /\ UNCHANGED <<started, users, siteConfig, socialLinks, pc, body, content>>

\* what GET /api/user answers on session s
UserResponse(s) ==
  IF ~isAuthenticated(s)
  THEN Respond(s, "user", 401, Message("Not authenticated"))
  ELSE Respond(s, "user", 200, userWithoutPassword(ReqUser(s)))

GetUser(s) ==
  /\ started
  /\ pc[s] = "idle"
  /\ Reply(NoBody, UserResponse(s))
  /\ UNCHANGED <<started, users, siteConfig, socialLinks, session, pc, body, content>>

(* ------------------------------------------------------------------ *)
(* Authorization gates and the routes behind them                     *)
(* ------------------------------------------------------------------ *)

\* status a gate rejects with; Pass for next()
Pass == 0

\* checkAdmin, and the identical app.use("/api/admin/*") middleware before it
checkAdmin(s) ==
  IF ~isAuthenticated(s) THEN 401
  ELSE IF ~ReqUser(s).isAdmin THEN 403
  ELSE Pass

\* isAdmin of the social-links, skills, experiences and projects routes
isAdmin(s) ==
  IF ~isAuthenticated(s) \/ ~ReqUser(s).isAdmin THEN 403
  ELSE Pass

GateMessage(status) ==
  IF status = 401 THEN Message("Not authenticated") ELSE Message("Access denied")

\* insertSiteConfigSchema: setupKey is required, siteName has a default
SiteConfigBodies == [siteName : SiteNames, setupKey : Keys]

\* storage.updateSiteConfig on an existing row
UpdatedConfig(existing, data) ==
  [id |-> existing.id, siteName |-> data.siteName, setupKey |-> data.setupKey]

\* what PATCH /api/admin/site-config answers over the site_config table;
\* valid = the body passes insertSiteConfigSchema
PatchSiteConfigResponse(s, table, valid, data) ==
  IF checkAdmin(s) # Pass
  THEN Respond(s, "admin/site-config", checkAdmin(s), GateMessage(checkAdmin(s)))
  ELSE IF ~valid
  THEN Respond(s, "admin/site-config", 400, Message("Validation error"))
  ELSE IF table = <<>>
  THEN Respond(s, "admin/site-config", 500, Message("Failed to update site configuration"))
  ELSE Respond(s, "admin/site-config", 200, publicConfig(UpdatedConfig(table[1], data)))

\* PATCH /api/admin/site-config
PatchSiteConfig(s, valid, data) ==
  /\ started
  /\ pc[s] = "idle"
  /\ siteConfig' =
       IF checkAdmin(s) = Pass /\ valid /\ siteConfig # <<>>
       THEN <<UpdatedConfig(siteConfig[1], data)>>
       ELSE siteConfig
  /\ Reply(NoBody, PatchSiteConfigResponse(s, siteConfig, valid, data))
  /\ UNCHANGED <<started, users, socialLinks, session, pc, body, content>>

\* what GET /api/site-config answers over the site_config table
GetSiteConfigResponse(s, table) ==
  IF table = <<>>
  THEN Respond(s, "site-config", 404, Message("Site configuration not found"))
  ELSE Respond(s, "site-config", 200, publicConfig(table[1]))

\* GET /api/site-config
GetSiteConfig(s) ==
  /\ started
  /\ pc[s] = "idle"
  /\ Reply(NoBody, GetSiteConfigResponse(s, siteConfig))
  /\ UNCHANGED <<started, users, siteConfig, socialLinks, session, pc, body, content>>

SocialLinkIds == {1}

\* storage.deleteSocialLink: delete the rows with this id, if any
deleteSocialLink(id) == SelectSeq(socialLinks, LAMBDA row : row.id # id)

\* DELETE /api/social-links/:id
DeleteSocialLink(s, id) ==
  /\ started
  /\ pc[s] = "idle"
  /\ IF isAdmin(s) # Pass
     THEN /\ Reply(NoBody, Respond(s, "social-links", isAdmin(s),
                                   Message("Unauthorized: Admin access required")))
          /\ UNCHANGED socialLinks
     ELSE /\ socialLinks' = deleteSocialLink(id)
          /\ Reply([id |-> id], Respond(s, "social-links", 204, [text |-> "No Content"]))
  /\ UNCHANGED <<started, users, siteConfig, session, pc, body, content>>

(* ------------------------------------------------------------------ *)
(* Specification                                                      *)
(* ------------------------------------------------------------------ *)

Next ==
  \/ Startup
  \/ \E s \in Sessions, b \in RegisterBodies : Register(s, b)
  \/ \E s \in Sessions : RegisterCheckEmail(s)
  \/ \E s \in Sessions : RegisterGate(s)
  \/ \E s \in Sessions : RegisterCreate(s)
  \/ \E s \in Sessions, b \in LoginBodies : Login(s, b)
  \/ \E s \in Sessions : Logout(s)
  \/ \E s \in Sessions : GetUser(s)
  \/ \E s \in Sessions, valid \in BOOLEAN, data \in SiteConfigBodies :
       PatchSiteConfig(s, valid, data)
  \/ \E s \in Sessions, id \in SocialLinkIds : DeleteSocialLink(s, id)

Spec == Init /\ [][Next]_vars

(* ------------------------------------------------------------------ *)
(* Restart over a database that already holds users                   *)
(* ------------------------------------------------------------------ *)

\* an administrator and a regular user, as POST /api/register stored them
SeedUsers ==
  <<[id |-> 1, username |-> "admin1", password |-> hashPassword("secret1", 1),
     email |-> "a@x.com", isAdmin |-> TRUE],
    [id |-> 2, username |-> "bob", password |-> hashPassword("secret2", 1),
     email |-> "b@x.com", isAdmin |-> FALSE]>>

\* the site_config table a restart may find: empty, or one row with any key
StoredConfigs ==
  {<<>>} \cup {<<[id |-> 1, siteName |-> "Portfolio", setupKey |-> k]>> : k \in Keys}

\* the process starts: the session store (a MemoryStore) is empty, no
\* request is in flight, and the users table is what earlier runs left
Restarted ==
  /\ started = FALSE
  /\ users = SeedUsers
  /\ socialLinks = <<>>
  /\ session = [s \in Sessions |-> Anonymous]
  /\ pc = [s \in Sessions |-> "idle"]
  /\ body = [s \in Sessions |-> NoBody]
  /\ req = NoBody
  /\ resp = NoResp
  /\ mail = NoMail
  /\ nextval = NoSerial

(* ------------------------------------------------------------------ *)
(* Site configuration routes                                          *)
(* ------------------------------------------------------------------ *)

SiteInit ==
  /\ Restarted
  /\ siteConfig \in StoredConfigs
  /\ db = EmptyDb

SiteNext ==
  \/ Startup
  \/ \E s \in Sessions, b \in LoginBodies : Login(s, b)
  \/ \E s \in Sessions : Logout(s)
  \/ \E s \in Sessions : GetSiteConfig(s)
  \/ \E s \in Sessions, valid \in BOOLEAN, data \in SiteConfigBodies :
       PatchSiteConfig(s, valid, data)

SiteSpec == SiteInit /\ [][SiteNext]_vars

\* the process ends: the tables stay, the MemoryStore of sessions is lost
Stop ==
  /\ started
  /\ \A s \in Sessions : pc[s] = "idle"
  /\ started' = FALSE
  /\ session' = [s \in Sessions |-> Anonymous]
  /\ UNCHANGED <<users, siteConfig, socialLinks, pc, body, req, resp, mail, content>>

RestartNext ==
  \/ Startup
  \/ Stop
  \/ \E s \in Sessions, b \in LoginBodies : Login(s, b)
  \/ \E s \in Sessions : GetSiteConfig(s)
  \/ \E s \in Sessions, valid \in BOOLEAN, data \in SiteConfigBodies :
       PatchSiteConfig(s, valid, data)

RestartSpec == SiteInit /\ [][RestartNext]_vars

(* ------------------------------------------------------------------ *)
(* The server in service                                              *)
(* ------------------------------------------------------------------ *)

\* the session store some time after start: the first browser belongs to
\* the administrator, the second is anonymous or logged in as either user
Browsers ==
  {b \in [Sessions -> {Anonymous} \cup {u.id : u \in Rows(SeedUsers)}] : b["s1"] = 1}

\* the site_config table registerRoutes leaves when it finds it empty
StartedConfig ==
  <<[id |-> 1, siteName |-> "Portfolio", setupKey |-> DefaultSetupKey]>>

\* registerRoutes has run, users are logged in, no request is in flight
Serving ==
  /\ started = TRUE
  /\ users = SeedUsers
  /\ siteConfig = StartedConfig
  /\ socialLinks = <<>>
  /\ session \in Browsers
  /\ pc = [s \in Sessions |-> "idle"]
  /\ body = [s \in Sessions |-> NoBody]
  /\ req = NoBody
  /\ resp = NoResp
  /\ mail = NoMail
  /\ nextval = NoSerial

\* the handler of session s ends its request with response r, having
\* handed notification m to the mailer
Notify(s, m, r) ==
  /\ pc' = [pc EXCEPT ![s] = "idle"]
  /\ body' = [body EXCEPT ![s] = NoBody]
  /\ req' = NoBody
  /\ resp' = r
  /\ mail' = m

(* ------------------------------------------------------------------ *)
(* Contact info (a lazily created singleton)                          *)
(* ------------------------------------------------------------------ *)

contactInfo == db.contactInfo

\* the defaults of getContactInfo (the socialLinks list is left out)
ContactInfoDefaults ==
  [description |-> "Have a project in mind or just want to say hello?",
   email |-> "contact@example.com", phone |-> "(123) 456-7890",
   location |-> "San Francisco, CA"]

\* the row createContactInfo inserts: id is the serial primary key
createContactInfo(info) ==
  [id |-> Len(contactInfo) + 1, description |-> info.description,
   email |-> info.email, phone |-> info.phone, location |-> info.location]

(* ------------------------------------------------------------------ *)
(* Contact messages                                                   *)
(* ------------------------------------------------------------------ *)

contactMessages == db.contactMessages

portfolioInfo == db.portfolioInfo

\* rows the contact_messages serial may number
MaxMessages == 2
MessageIds == 1..MaxMessages

ContactFields == {"name", "email", "subject", "message"}

ContactValues(f) ==
  IF f = "email" THEN {"ann@x.com", "not-an-email"}
  ELSE IF f = "name" THEN {"Ann"}
  ELSE IF f = "subject" THEN {"Hi"}
  ELSE {"Hello"}

\* the strings z.string().email() accepts
WellFormedEmails == {"ann@x.com"} \cup Emails

\* request bodies with at most one field missing: a field is present when
\* it is in the body's domain
ContactBodies ==
  UNION {{b \in [F -> UNION {ContactValues(f) : f \in ContactFields}] :
            \A f \in F : b[f] \in ContactValues(f)} :
         F \in {G \in SUBSET ContactFields : Cardinality(ContactFields \ G) <= 1}}

\* insertContactMessageSchema.parse succeeds: createInsertSchema makes each
\* picked notNull text column a required z.string()
insertContactMessageSchema(b) == ContactFields \subseteq DOMAIN b

\* the parsed data: the four picked columns
ParsedContact(b) == [f \in ContactFields |-> b[f]]

\* fault: the message column filled from the subject
createContactMessageSubject(data) ==
  [id |-> nextval.contactMessages + 1, name |-> data.name, email |-> data.email,
   subject |-> data.subject, message |-> data.subject, read |-> FALSE]

\* the row createContactMessage inserts: serial id, read by its column default
createContactMessage(data) ==
  [id |-> nextval.contactMessages + 1, name |-> data.name, email |-> data.email,
   subject |-> data.subject, message |-> data.message, read |-> FALSE]

\* sendEmail resolves { success: true }, or { success: false } when the
\* transporter is missing or sendMail throws
SendOutcomes == {"sent", "failed"}

\* if (contactInfo && contactInfo.email) await sendEmail({ to: contactInfo.email, ... })
Notification(info, outcome) ==
  IF info.email # "" THEN [to |-> info.email, outcome |-> outcome] ELSE NoMail

\* the route answers without reading what sendEmail resolved to
ContactResponse(s, outcome) ==
  Respond(s, "contact", 201, Message("Message sent successfully"))

\* POST /api/contact: parse the body and store the message
PostContact(s, b) ==
  /\ started
  /\ pc[s] = "idle"
  /\ IF ~insertContactMessageSchema(b)
     THEN /\ Finish(s, b, Respond(s, "contact", 400, Message("Validation error")))
          /\ UNCHANGED <<db, nextval>>
     ELSE /\ nextval.contactMessages < MaxMessages
          /\ LET data == ParsedContact(b)
                 message == createContactMessage(data)
             IN  /\ db' = [db EXCEPT !.contactMessages = Append(@, message)]
                 /\ nextval' = [nextval EXCEPT !.contactMessages = message.id]
                 /\ Await(s, "getContactInfo", [data |-> data, message |-> message.id])
  /\ UNCHANGED <<started, users, siteConfig, socialLinks, session>>

\* storage.getContactInfo: the select; with a row, the notification and 201
PostContactGetInfo(s) ==
  /\ pc[s] = "getContactInfo"
  /\ IF contactInfo = <<>>
     THEN Await(s, "createContactInfo", body[s])
     ELSE \E outcome \in SendOutcomes :
            Notify(s, Notification(contactInfo[1], outcome), ContactResponse(s, outcome))
  /\ UNCHANGED <<started, users, siteConfig, socialLinks, session, db, nextval>>

\* storage.getContactInfo found no row: createContactInfo with the
\* defaults, then the notification and 201
PostContactCreateInfo(s) ==
  /\ pc[s] = "createContactInfo"
  /\ LET info == createContactInfo(ContactInfoDefaults)
     IN  /\ db' = [db EXCEPT !.contactInfo = Append(@, info)]
         /\ \E outcome \in SendOutcomes :
              Notify(s, Notification(info, outcome), ContactResponse(s, outcome))
  /\ UNCHANGED <<started, users, siteConfig, socialLinks, session, nextval>>

\* fault: the read flag toggled
markContactMessageAsReadToggle(id) ==
  [i \in 1..Len(contactMessages) |->
     IF contactMessages[i].id = id
     THEN [contactMessages[i] EXCEPT !.read = ~@]
     ELSE contactMessages[i]]

\* update contact_messages set read = true where id = :id
markContactMessageAsRead(id) ==
  [i \in 1..Len(contactMessages) |->
     IF contactMessages[i].id = id
     THEN [contactMessages[i] EXCEPT !.read = TRUE]
     ELSE contactMessages[i]]

\* PATCH /api/admin/contact-messages/:id/read
MarkContactMessageAsRead(s, id) ==
  /\ started
  /\ pc[s] = "idle"
  /\ IF checkAdmin(s) # Pass
     THEN /\ Reply(NoBody, Respond(s, "admin/contact-messages/read", checkAdmin(s),
                                   GateMessage(checkAdmin(s))))
          /\ UNCHANGED db
     ELSE IF \A row \in Rows(contactMessages) : row.id # id
     THEN /\ Reply([id |-> id], Respond(s, "admin/contact-messages/read", 404,
                                       Message("Message not found")))
          /\ UNCHANGED db
     ELSE /\ db' = [db EXCEPT !.contactMessages = markContactMessageAsRead(id)]
          /\ Reply([id |-> id], Respond(s, "admin/contact-messages/read", 200,
                                   CHOOSE row \in Rows(markContactMessageAsRead(id)) :
                                     row.id = id))
  /\ UNCHANGED <<started, users, siteConfig, socialLinks, session, pc, body, nextval>>

\* delete from contact_messages where id = :id
deleteContactMessage(id) == SelectSeq(contactMessages, LAMBDA row : row.id # id)

\* DELETE /api/admin/contact-messages/:id
DeleteContactMessage(s, id) ==
  /\ started
  /\ pc[s] = "idle"
  /\ IF checkAdmin(s) # Pass
     THEN /\ Reply(NoBody, Respond(s, "admin/contact-messages", checkAdmin(s),
                                   GateMessage(checkAdmin(s))))
          /\ UNCHANGED db
     ELSE /\ db' = [db EXCEPT !.contactMessages = deleteContactMessage(id)]
          /\ Reply([id |-> id],
                   Respond(s, "admin/contact-messages", 204, [text |-> "No Content"]))
  /\ UNCHANGED <<started, users, siteConfig, socialLinks, session, pc, body, nextval>>

\* the contact form schema of the second build of the routes:
\* name, subject, message z.string().min(1), email z.string().email()
ContactFormSchema(b) ==
  /\ ContactFields \subseteq DOMAIN b
  /\ \A f \in ContactFields : b[f] # ""
  /\ b.email \in WellFormedEmails

\* POST /api/contact of the second build: it stores nothing; a body the
\* schema rejects goes to next(err).  Its awaits read the store once.
PostContactForm(s, b) ==
  /\ started
  /\ pc[s] = "idle"
  /\ req' = b
  /\ IF ~ContactFormSchema(b)
     THEN /\ resp' = Respond(s, "contact-form", 500, Message("Internal Server Error"))
          /\ mail' = NoMail
     ELSE IF portfolioInfo = <<>>
     THEN /\ resp' = Respond(s, "contact-form", 500,
                             Message("Portfolio information not set up yet"))
          /\ mail' = NoMail
     ELSE \E emailSent \in SendOutcomes :
            /\ mail' = [to |-> portfolioInfo[1].contactEmail, outcome |-> emailSent]
            /\ resp' = IF emailSent = "failed"
                       THEN Respond(s, "contact-form", 500, Message("Failed to send email"))
                       ELSE Respond(s, "contact-form", 200, Message("Message sent successfully"))
  /\ UNCHANGED <<started, users, siteConfig, socialLinks, session, pc, body, content>>

\* the contact_info table as earlier requests left it: empty, the defaults,
\* or an address removed by PATCH /api/admin/contact-info
StoredContactInfo ==
  {<<>>,
   <<[id |-> 1, description |-> ContactInfoDefaults.description,
      email |-> ContactInfoDefaults.email, phone |-> ContactInfoDefaults.phone,
      location |-> ContactInfoDefaults.location]>>,
   <<[id |-> 1, description |-> ContactInfoDefaults.description,
      email |-> "", phone |-> ContactInfoDefaults.phone,
      location |-> ContactInfoDefaults.location]>>}

\* the portfolio_info table: empty, or the row POST /api/portfolio-info stored
StoredPortfolioInfo == {<<>>, <<[id |-> 1, contactEmail |-> "owner@x.com"]>>}

ContactInit ==
  /\ Serving
  /\ db \in {[EmptyDb EXCEPT !.contactInfo = info, !.portfolioInfo = portfolio] :
               info \in StoredContactInfo, portfolio \in StoredPortfolioInfo}

ContactNext ==
  \/ \E s \in Sessions, b \in ContactBodies : PostContact(s, b)
  \/ \E s \in Sessions : PostContactGetInfo(s)
  \/ \E s \in Sessions : PostContactCreateInfo(s)
  \/ \E s \in Sessions, id \in MessageIds : MarkContactMessageAsRead(s, id)
  \/ \E s \in Sessions, id \in MessageIds : DeleteContactMessage(s, id)
  \/ \E s \in Sessions, b \in ContactBodies : PostContactForm(s, b)

ContactSpec == ContactInit /\ [][ContactNext]_vars

(* ------------------------------------------------------------------ *)
(* Singleton tables                                                   *)
(* ------------------------------------------------------------------ *)

\* the singletons whose read creates the row when there is none
LazyTables == {"hero", "about", "contactInfo"}

\* the defaults of getHero
HeroDefaults ==
  [greeting |-> "Hello, I'm", name |-> "John Doe",
   tagline |-> "Full Stack Developer & UI/UX Designer"]

\* the defaults of getAbout (the details and socialLinks lists are left out)
AboutDefaults ==
  [bio |-> "I'm a passionate developer with experience building web applications.",
   additionalInfo |-> "When I'm not coding, I enjoy exploring new technologies.",
   profileImage |-> "https://images.unsplash.com/photo-1507003211169-0a1dd7228f2d"]

Defaults(t) ==
  IF t = "hero" THEN HeroDefaults
  ELSE IF t = "about" THEN AboutDefaults
  ELSE ContactInfoDefaults

\* the row createHero inserts: id is the serial primary key
createHero(heroData) ==
  [id |-> Len(db.hero) + 1, greeting |-> heroData.greeting, name |-> heroData.name,
   tagline |-> heroData.tagline]

\* the row createAbout inserts
createAbout(aboutData) ==
  [id |-> Len(db.about) + 1, bio |-> aboutData.bio,
   additionalInfo |-> aboutData.additionalInfo, profileImage |-> aboutData.profileImage]

createSingleton(t, data) ==
  IF t = "hero" THEN createHero(data)
  ELSE IF t = "about" THEN createAbout(data)
  ELSE createContactInfo(data)

\* const [row] = await db.select().from(table), on a table with rows
selectFirst(t) == db[t][1]

\* .set({ ...data }) on one row
SetFields(row, data) ==
  [f \in DOMAIN row |-> IF f \in DOMAIN data THEN data[f] ELSE row[f]]

\* update table set ... where id = :id
updateSingleton(t, id, data) ==
  [i \in 1..Len(db[t]) |->
     IF db[t][i].id = id THEN SetFields(db[t][i], data) ELSE db[t][i]]

\* the bodies the admin editors send: some of the columns
PatchBodies(t) ==
  IF t = "hero" THEN {[name |-> "Ada Lovelace"]}
  ELSE IF t = "about" THEN {[bio |-> "Updated bio"]}
  ELSE {[email |-> ""]}

RouteOf(t) == IF t = "contactInfo" THEN "contact-info" ELSE t

AdminRouteOf(t) ==
  IF t = "hero" THEN "admin/hero"
  ELSE IF t = "about" THEN "admin/about"
  ELSE "admin/contact-info"

\* GET /api/hero, /api/about, /api/contact-info: the select of getHero,
\* getAbout, getContactInfo; with a row, the answer
GetSingleton(s, t) ==
  /\ started
  /\ pc[s] = "idle"
  /\ IF db[t] = <<>>
     THEN Await(s, "create", [table |-> t, update |-> FALSE])
     ELSE /\ Reply(NoBody, Respond(s, RouteOf(t), 200, selectFirst(t)))
          /\ UNCHANGED <<pc, body>>
  /\ UNCHANGED <<started, users, siteConfig, socialLinks, session, content>>

\* PATCH /api/admin/hero, /api/admin/about, /api/admin/contact-info: the
\* gate, the parse, and the select of the getHero (getAbout, getContactInfo)
\* that updateHero (updateAbout, updateContactInfo) starts with
PatchSingleton(s, t, valid, data) ==
  /\ started
  /\ pc[s] = "idle"
  /\ IF checkAdmin(s) # Pass
     THEN /\ Reply(NoBody, Respond(s, AdminRouteOf(t), checkAdmin(s),
                                   GateMessage(checkAdmin(s))))
          /\ UNCHANGED <<pc, body>>
     ELSE IF ~valid
     THEN /\ Reply(NoBody, Respond(s, AdminRouteOf(t), 400, Message("Validation error")))
          /\ UNCHANGED <<pc, body>>
     ELSE IF db[t] = <<>>
     THEN Await(s, "create", [table |-> t, update |-> TRUE, data |-> data])
     ELSE Await(s, "update", [table |-> t, id |-> selectFirst(t).id, data |-> data])
  /\ UNCHANGED <<started, users, siteConfig, socialLinks, session, content>>

\* the select found no row: createHero (createAbout, createContactInfo)
\* with the defaults; a read answers with the new row, an update goes on
CreateSingleton(s) ==
  /\ pc[s] = "create"
  /\ LET t == body[s].table
         row == createSingleton(t, Defaults(t))
     IN  /\ db' = [db EXCEPT ![t] = Append(@, row)]
         /\ IF body[s].update
            THEN Await(s, "update", [table |-> t, id |-> row.id, data |-> body[s].data])
            ELSE Finish(s, NoBody, Respond(s, RouteOf(t), 200, row))
  /\ UNCHANGED <<started, users, siteConfig, socialLinks, session, nextval>>

\* updateHero (updateAbout, updateContactInfo): the update of the row that
\* its read returned, and the answer
UpdateSingleton(s) ==
  /\ pc[s] = "update"
  /\ LET t == body[s].table
         updated == updateSingleton(t, body[s].id, body[s].data)
     IN  /\ db' = [db EXCEPT ![t] = updated]
         /\ Finish(s, NoBody, Respond(s, AdminRouteOf(t), 200,
                                      CHOOSE row \in Rows(updated) : row.id = body[s].id))
  /\ UNCHANGED <<started, users, siteConfig, socialLinks, session, nextval>>

PortfolioInfoBodies == {[contactEmail |-> "owner@x.com"]}

\* POST /api/portfolio-info: the gate, the parse (a rejected body goes to
\* next(err)), and the getPortfolioInfo that updatePortfolioInfo starts with
PostPortfolioInfo(s, valid, data) ==
  /\ started
  /\ pc[s] = "idle"
  /\ IF isAdmin(s) # Pass
     THEN /\ Reply(NoBody, Respond(s, "portfolio-info", isAdmin(s),
                                   Message("Unauthorized: Admin access required")))
          /\ UNCHANGED <<pc, body>>
     ELSE IF ~valid
     THEN /\ Reply(NoBody, Respond(s, "portfolio-info", 500, Message("Internal Server Error")))
          /\ UNCHANGED <<pc, body>>
     ELSE Await(s, "upsert",
                [existing |-> IF portfolioInfo = <<>> THEN 0 ELSE portfolioInfo[1].id,
                 data |-> data])
  /\ UNCHANGED <<started, users, siteConfig, socialLinks, session, content>>

\* updatePortfolioInfo: update the row its read found, or insert one
UpsertPortfolioInfo(s) ==
  /\ pc[s] = "upsert"
  /\ LET existing == body[s].existing
         created == [id |-> Len(portfolioInfo) + 1,
                     contactEmail |-> body[s].data.contactEmail]
         updated == [i \in 1..Len(portfolioInfo) |->
                       IF portfolioInfo[i].id = existing
                       THEN SetFields(portfolioInfo[i], body[s].data)
                       ELSE portfolioInfo[i]]
     IN  IF existing # 0
         THEN /\ db' = [db EXCEPT !.portfolioInfo = updated]
              /\ Finish(s, NoBody, Respond(s, "portfolio-info", 200,
                                           CHOOSE row \in Rows(updated) : row.id = existing))
         ELSE /\ db' = [db EXCEPT !.portfolioInfo = Append(@, created)]
              /\ Finish(s, NoBody, Respond(s, "portfolio-info", 200, created))
  /\ UNCHANGED <<started, users, siteConfig, socialLinks, session, nextval>>

SingletonInit ==
  /\ Serving
  /\ db = EmptyDb

SingletonNext ==
  \/ \E s \in Sessions, t \in LazyTables : GetSingleton(s, t)
  \/ \E s \in Sessions, t \in LazyTables, valid \in BOOLEAN :
       \E data \in PatchBodies(t) : PatchSingleton(s, t, valid, data)
  \/ \E s \in Sessions : CreateSingleton(s)
  \/ \E s \in Sessions : UpdateSingleton(s)
  \/ \E s \in Sessions, valid \in BOOLEAN, data \in PortfolioInfoBodies :
       PostPortfolioInfo(s, valid, data)
  \/ \E s \in Sessions : UpsertPortfolioInfo(s)

SingletonSpec == SingletonInit /\ [][SingletonNext]_vars

(* ------------------------------------------------------------------ *)
(* Skill categories and skills                                        *)
(* ------------------------------------------------------------------ *)

skillCategories == db.skillCategories

skills == db.skills

\* rows the skill_categories and the skills serials may number
MaxCategories == 2
MaxSkills == 2

CategoryIds == 1..MaxCategories
SkillIds == 1..MaxSkills

\* a null category_id
Null == 0

\* request bodies: a category, and one without its name
SkillCategoryBodies == [name : {"Frontend"}, icon : {"code"}] \cup {[icon |-> "code"]}

\* insertSkillCategorySchema.parse succeeds: name and icon are notNull text
insertSkillCategorySchema(b) == {"name", "icon"} \subseteq DOMAIN b

\* request bodies: a skill in a category or in none, and one without its name
SkillBodies ==
  [name : {"React"}, categoryId : {Null} \cup CategoryIds] \cup {[categoryId |-> Null]}

\* insertSkillSchema.parse succeeds: name is notNull text, categoryId is
\* nullable
insertSkillSchema(b) == "name" \in DOMAIN b

\* the 400 of the catch for a ZodError
Invalid(s, data, route) ==
  Reply(data, Respond(s, route, 400, Message("Validation error")))

\* the row createSkillCategory inserts
createSkillCategory(category) ==
  [id |-> nextval.skillCategories + 1, name |-> category.name, icon |-> category.icon]

\* the row createSkill inserts
createSkill(skill) ==
  [id |-> nextval.skills + 1, name |-> skill.name, categoryId |-> skill.categoryId]

\* category_id references skill_categories.id: checked on insert and update
SkillsForeignKey(row) ==
  \/ row.categoryId = Null
  \/ \E category \in Rows(skillCategories) : category.id = row.categoryId

\* delete from skill_categories where id = :id
deleteSkillCategory(id) == SelectSeq(skillCategories, LAMBDA row : row.id # id)

\* fault: the reference declared without onDelete: 'cascade'
skillsKept(id) == skills

\* onDelete: 'cascade': the skills of a deleted category go with it
skillsCascade(id) == SelectSeq(skills, LAMBDA row : row.categoryId # id)

\* update skill_categories set ... where id = :id
updateSkillCategory(id, category) ==
  [i \in 1..Len(skillCategories) |->
     IF skillCategories[i].id = id
     THEN SetFields(skillCategories[i], category)
     ELSE skillCategories[i]]

\* fault: the update without its where clause
updateSkillAll(id, skill) ==
  [i \in 1..Len(skills) |-> SetFields(skills[i], skill)]

\* update skills set ... where id = :id
updateSkill(id, skill) ==
  [i \in 1..Len(skills) |->
     IF skills[i].id = id THEN SetFields(skills[i], skill) ELSE skills[i]]

\* fault: the delete without its where clause
deleteSkillAll(id) == <<>>

\* delete from skills where id = :id
deleteSkill(id) == SelectSeq(skills, LAMBDA row : row.id # id)

\* the gate of an /api/admin route answered for session s
Gate(s, route) ==
  Reply(NoBody, Respond(s, route, checkAdmin(s), GateMessage(checkAdmin(s))))

\* POST /api/admin/skill-categories
CreateSkillCategory(s, data) ==
  /\ started
  /\ pc[s] = "idle"
  /\ IF checkAdmin(s) # Pass
     THEN /\ Gate(s, "admin/skill-categories")
          /\ UNCHANGED content
     ELSE IF ~insertSkillCategorySchema(data)
     THEN /\ Invalid(s, data, "admin/skill-categories")
          /\ UNCHANGED content
     ELSE /\ nextval.skillCategories < MaxCategories
          /\ LET category == createSkillCategory(data)
             IN  /\ db' = [db EXCEPT !.skillCategories = Append(@, category)]
                 /\ nextval' = [nextval EXCEPT !.skillCategories = category.id]
                 /\ Reply(data, Respond(s, "admin/skill-categories", 201, category))
  /\ UNCHANGED <<started, users, siteConfig, socialLinks, session, pc, body>>

\* DELETE /api/admin/skill-categories/:id
DeleteSkillCategory(s, id) ==
  /\ started
  /\ pc[s] = "idle"
  /\ IF checkAdmin(s) # Pass
     THEN /\ Gate(s, "admin/skill-categories/:id")
          /\ UNCHANGED db
     ELSE /\ db' = [db EXCEPT !.skillCategories = deleteSkillCategory(id),
                              !.skills = skillsCascade(id)]
          /\ Reply([id |-> id],
                   Respond(s, "admin/skill-categories/:id", 204, [text |-> "No Content"]))
  /\ UNCHANGED <<started, users, siteConfig, socialLinks, session, pc, body, nextval>>

\* POST /api/admin/skills; a violated foreign key makes createSkill throw
CreateSkill(s, data) ==
  /\ started
  /\ pc[s] = "idle"
  /\ IF checkAdmin(s) # Pass
     THEN /\ Gate(s, "admin/skills")
          /\ UNCHANGED content
     ELSE IF ~insertSkillSchema(data)
     THEN /\ Invalid(s, data, "admin/skills")
          /\ UNCHANGED content
     ELSE /\ nextval.skills < MaxSkills
          /\ nextval' = [nextval EXCEPT !.skills = @ + 1]
          /\ LET skill == createSkill(data)
             IN  IF SkillsForeignKey(skill)
                 THEN /\ db' = [db EXCEPT !.skills = Append(@, skill)]
                      /\ Reply(data, Respond(s, "admin/skills", 201, skill))
                 ELSE /\ Reply(data, Respond(s, "admin/skills", 500,
                                             Message("Failed to create skill")))
                      /\ UNCHANGED db
  /\ UNCHANGED <<started, users, siteConfig, socialLinks, session, pc, body>>

\* the id and the body of a request, as the properties read them
Addressed(id, data) == [id |-> id, data |-> data]

\* PATCH /api/admin/skill-categories/:id: the update returns the row it
\* changed, or none
UpdateSkillCategory(s, id, data) ==
  /\ started
  /\ pc[s] = "idle"
  /\ IF checkAdmin(s) # Pass
     THEN /\ Gate(s, "PATCH admin/skill-categories/:id")
          /\ UNCHANGED db
     ELSE IF ~insertSkillCategorySchema(data)
     THEN /\ Invalid(s, Addressed(id, data), "PATCH admin/skill-categories/:id")
          /\ UNCHANGED db
     ELSE LET updated == {row \in Rows(updateSkillCategory(id, data)) : row.id = id}
          IN  /\ db' = [db EXCEPT !.skillCategories = updateSkillCategory(id, data)]
              /\ Reply(Addressed(id, data),
                       IF updated = {}
                       THEN Respond(s, "PATCH admin/skill-categories/:id", 404,
                                    Message("Skill category not found"))
                       ELSE Respond(s, "PATCH admin/skill-categories/:id", 200,
                                    CHOOSE row \in updated : TRUE))
  /\ UNCHANGED <<started, users, siteConfig, socialLinks, session, pc, body, nextval>>

\* PATCH /api/admin/skills/:id: the update returns the row it changed, or
\* none; a violated foreign key on a changed row makes updateSkill throw
UpdateSkill(s, id, data) ==
  /\ started
  /\ pc[s] = "idle"
  /\ IF checkAdmin(s) # Pass
     THEN /\ Gate(s, "PATCH admin/skills/:id")
          /\ UNCHANGED db
     ELSE IF ~insertSkillSchema(data)
     THEN /\ Invalid(s, Addressed(id, data), "PATCH admin/skills/:id")
          /\ UNCHANGED db
     ELSE IF (\E row \in Rows(skills) : row.id = id) /\ ~SkillsForeignKey(data)
     THEN /\ Reply(Addressed(id, data),
                   Respond(s, "PATCH admin/skills/:id", 500,
                           Message("Failed to update skill")))
          /\ UNCHANGED db
     ELSE LET updated == {row \in Rows(updateSkill(id, data)) : row.id = id}
          IN  /\ db' = [db EXCEPT !.skills = updateSkill(id, data)]
              /\ Reply(Addressed(id, data),
                       IF updated = {}
                       THEN Respond(s, "PATCH admin/skills/:id", 404, Message("Skill not found"))
                       ELSE Respond(s, "PATCH admin/skills/:id", 200,
                                    CHOOSE row \in updated : TRUE))
  /\ UNCHANGED <<started, users, siteConfig, socialLinks, session, pc, body, nextval>>

\* DELETE /api/admin/skills/:id
DeleteSkill(s, id) ==
  /\ started
  /\ pc[s] = "idle"
  /\ IF checkAdmin(s) # Pass
     THEN /\ Gate(s, "admin/skills/:id")
          /\ UNCHANGED db
     ELSE /\ db' = [db EXCEPT !.skills = deleteSkill(id)]
          /\ Reply([id |-> id], Respond(s, "admin/skills/:id", 204, [text |-> "No Content"]))
  /\ UNCHANGED <<started, users, siteConfig, socialLinks, session, pc, body, nextval>>

\* POST /api/skills of the second build: a body the schema rejects, like a
\* violated foreign key, goes to next(err)
PostSkill(s, data) ==
  /\ started
  /\ pc[s] = "idle"
  /\ IF isAdmin(s) # Pass
     THEN /\ Reply(NoBody, Respond(s, "skills", isAdmin(s),
                                   Message("Unauthorized: Admin access required")))
          /\ UNCHANGED content
     ELSE IF ~insertSkillSchema(data)
     THEN /\ Reply(data, Respond(s, "skills", 500, Message("Internal Server Error")))
          /\ UNCHANGED content
     ELSE /\ nextval.skills < MaxSkills
          /\ nextval' = [nextval EXCEPT !.skills = @ + 1]
          /\ LET created == createSkill(data)
             IN  IF SkillsForeignKey(created)
                 THEN /\ db' = [db EXCEPT !.skills = Append(@, created)]
                      /\ Reply(data, Respond(s, "skills", 201, created))
                 ELSE /\ Reply(data, Respond(s, "skills", 500,
                                             Message("Internal Server Error")))
                      /\ UNCHANGED db
  /\ UNCHANGED <<started, users, siteConfig, socialLinks, session, pc, body>>

SkillInit ==
  /\ Serving
  /\ db = EmptyDb

SkillNext ==
  \/ \E s \in Sessions, data \in SkillCategoryBodies : CreateSkillCategory(s, data)
  \/ \E s \in Sessions, id \in CategoryIds, data \in SkillCategoryBodies :
       UpdateSkillCategory(s, id, data)
  \/ \E s \in Sessions, id \in CategoryIds : DeleteSkillCategory(s, id)
  \/ \E s \in Sessions, data \in SkillBodies : CreateSkill(s, data)
  \/ \E s \in Sessions, id \in SkillIds, data \in SkillBodies : UpdateSkill(s, id, data)
  \/ \E s \in Sessions, id \in SkillIds : DeleteSkill(s, id)
  \/ \E s \in Sessions, data \in SkillBodies : PostSkill(s, data)

SkillSpec == SkillInit /\ [][SkillNext]_vars

(* ------------------------------------------------------------------ *)
(* Experiences, projects and their technologies                       *)
(* ------------------------------------------------------------------ *)

\* the parent tables with technology child rows
Parents == {"experiences", "projects"}

TechnologiesOf(kind) ==
  IF kind = "experiences" THEN "experienceTechnologies" ELSE "projectTechnologies"

\* experiences (and projects) the requests may create
MaxParents == 1
ParentIds == 1..MaxParents

\* the technologies arrays the editors send
TechLists == {<<>>, <<"A", "B">>, <<"C">>}

\* request bodies: the parent's columns, with or without a technologies array
ParentBodies ==
  {[title |-> "Engineer"]}
    \cup {[title |-> "Engineer", technologies |-> list] : list \in TechLists}

\* const { technologies, ...experienceData } = req.body
parentData(b) == [f \in (DOMAIN b) \ {"technologies"} |-> b[f]]

\* if (technologies): an array, even an empty one, is truthy
Supplied(b) == "technologies" \in DOMAIN b

\* the row createExperience (createProject) inserts
createParent(kind, data) == [id |-> Len(db[kind]) + 1, title |-> data.title]

\* update experiences (projects) set ... where id = :id
updateParent(kind, id, data) ==
  [i \in 1..Len(db[kind]) |->
     IF db[kind][i].id = id THEN SetFields(db[kind][i], data) ELSE db[kind][i]]

\* the child row createExperienceTechnology (createProjectTechnology)
\* inserts; its serial id is never read
createTechnology(kind, id, name) ==
  IF kind = "experiences"
  THEN [experienceId |-> id, name |-> name]
  ELSE [projectId |-> id, name |-> name]

ParentOf(kind, row) ==
  IF kind = "experiences" THEN row.experienceId ELSE row.projectId

\* select from experience_technologies where experience_id = :id
technologiesOf(kind, id) ==
  SelectSeq(db[TechnologiesOf(kind)], LAMBDA row : ParentOf(kind, row) = id)

\* deleteExperienceTechnologiesByExperienceId (deleteProjectTechnologiesByProjectId)
deleteTechnologies(kind, id) ==
  SelectSeq(db[TechnologiesOf(kind)], LAMBDA row : ParentOf(kind, row) # id)

\* where the handler goes once `rest` is what it still has to insert
AfterTechnologies(rest) == IF rest = <<>> THEN "getParent" ELSE "createTechnology"

\* POST /api/experiences, /api/projects: the gate, createExperience
PostParent(s, kind, b) ==
  /\ started
  /\ pc[s] = "idle"
  /\ IF isAdmin(s) # Pass
     THEN /\ Reply(NoBody, Respond(s, kind, isAdmin(s),
                                   Message("Unauthorized: Admin access required")))
          /\ UNCHANGED <<pc, body, db>>
     ELSE /\ Len(db[kind]) < MaxParents
          /\ LET created == createParent(kind, parentData(b))
                 rest == IF Supplied(b) THEN b.technologies ELSE <<>>
             IN  /\ db' = [db EXCEPT ![kind] = Append(@, created)]
                 /\ Await(s, AfterTechnologies(rest),
                          [kind |-> kind, id |-> created.id, body |-> b, rest |-> rest,
                           status |-> 201])
  /\ UNCHANGED <<started, users, siteConfig, socialLinks, session, nextval>>

\* PUT /api/experiences/:id, /api/projects/:id: the gate, updateExperience
PutParent(s, kind, id, b) ==
  /\ started
  /\ pc[s] = "idle"
  /\ IF isAdmin(s) # Pass
     THEN /\ Reply(NoBody, Respond(s, kind, isAdmin(s),
                                   Message("Unauthorized: Admin access required")))
          /\ UNCHANGED <<pc, body, db>>
     ELSE IF \A row \in Rows(db[kind]) : row.id # id
     THEN /\ Reply([id |-> id, data |-> b],
                   Respond(s, kind, 404,
                           Message(IF kind = "experiences"
                                   THEN "Experience not found"
                                   ELSE "Project not found")))
          /\ UNCHANGED <<pc, body, db>>
     ELSE /\ db' = [db EXCEPT ![kind] = updateParent(kind, id, parentData(b))]
          /\ Await(s, IF Supplied(b) THEN "deleteTechnologies" ELSE "getParent",
                   [kind |-> kind, id |-> id, body |-> b,
                    rest |-> IF Supplied(b) THEN b.technologies ELSE <<>>,
                    status |-> 200])
  /\ UNCHANGED <<started, users, siteConfig, socialLinks, session, nextval>>

\* await storage.deleteExperienceTechnologiesByExperienceId(id)
DeleteTechnologies(s) ==
  /\ pc[s] = "deleteTechnologies"
  /\ LET h == body[s]
     IN  /\ db' = [db EXCEPT ![TechnologiesOf(h.kind)] = deleteTechnologies(h.kind, h.id)]
         /\ Await(s, AfterTechnologies(h.rest), h)
  /\ UNCHANGED <<started, users, siteConfig, socialLinks, session, nextval>>

\* one turn of the loop: await storage.createExperienceTechnology(...)
CreateTechnology(s) ==
  /\ pc[s] = "createTechnology"
  /\ LET h == body[s]
         rest == Tail(h.rest)
     IN  /\ db' = [db EXCEPT ![TechnologiesOf(h.kind)] =
                      Append(@, createTechnology(h.kind, h.id, Head(h.rest)))]
         /\ Await(s, AfterTechnologies(rest), [h EXCEPT !.rest = rest])
  /\ UNCHANGED <<started, users, siteConfig, socialLinks, session, nextval>>

\* the names of the child rows of a parent, in table order
TechnologyNames(kind, id) ==
  LET rows == technologiesOf(kind, id)
  IN  [i \in 1..Len(rows) |-> rows[i].name]

\* storage.getExperience(id) and the answer
GetParent(s) ==
  /\ pc[s] = "getParent"
  /\ LET h == body[s]
         parent == CHOOSE row \in Rows(db[h.kind]) : row.id = h.id
     IN  Finish(s, h.body,
                Respond(s, h.kind, h.status,
                        [id |-> parent.id, title |-> parent.title,
                         technologies |-> TechnologyNames(h.kind, h.id)]))
  /\ UNCHANGED <<started, users, siteConfig, socialLinks, session, content>>

ReadRoute(kind) == IF kind = "experiences" THEN "GET experiences" ELSE "GET projects"

\* GET /api/experiences/:id, /api/projects/:id: storage.getExperience
\* (getProject) and the answer
ReadParent(s, kind, id) ==
  /\ started
  /\ pc[s] = "idle"
  /\ IF \A row \in Rows(db[kind]) : row.id # id
     THEN Reply([id |-> id],
                Respond(s, ReadRoute(kind), 404,
                        Message(IF kind = "experiences"
                                THEN "Experience not found"
                                ELSE "Project not found")))
     ELSE LET parent == CHOOSE row \in Rows(db[kind]) : row.id = id
          IN  Reply([id |-> id],
                    Respond(s, ReadRoute(kind), 200,
                            [id |-> parent.id, title |-> parent.title,
                             technologies |-> TechnologyNames(kind, id)]))
  /\ UNCHANGED <<started, users, siteConfig, socialLinks, session, pc, body, content>>

TechInit ==
  /\ Serving
  /\ db = EmptyDb

TechNext ==
  \/ \E s \in Sessions, kind \in Parents, b \in ParentBodies : PostParent(s, kind, b)
  \/ \E s \in Sessions, kind \in Parents, id \in ParentIds, b \in ParentBodies :
       PutParent(s, kind, id, b)
  \/ \E s \in Sessions : DeleteTechnologies(s)
  \/ \E s \in Sessions : CreateTechnology(s)
  \/ \E s \in Sessions : GetParent(s)
  \/ \E s \in Sessions, kind \in Parents, id \in ParentIds : ReadParent(s, kind, id)

TechSpec == TechInit /\ [][TechNext]_vars

(* ------------------------------------------------------------------ *)
(* Deleting from the collections                                      *)
(* ------------------------------------------------------------------ *)

\* delete from experiences (projects) where id = :id
deleteParent(kind, id) == SelectSeq(db[kind], LAMBDA row : row.id # id)

AdminParentRoute(kind) ==
  IF kind = "experiences" THEN "admin/experiences/:id" ELSE "admin/projects/:id"

\* DELETE /api/admin/experiences/:id, /api/admin/projects/:id
DeleteParent(s, kind, id) ==
  /\ started
  /\ pc[s] = "idle"
  /\ IF checkAdmin(s) # Pass
     THEN /\ Gate(s, AdminParentRoute(kind))
          /\ UNCHANGED db
     ELSE /\ db' = [db EXCEPT ![kind] = deleteParent(kind, id)]
          /\ Reply([id |-> id],
                   Respond(s, AdminParentRoute(kind), 204, [text |-> "No Content"]))
  /\ UNCHANGED <<started, users, siteConfig, socialLinks, session, pc, body, nextval>>

\* the collections after the editors filled them: every id of every serial
\* is in use, the first skill is in the first category, the others in none
StoredCollections ==
  [EmptyDb EXCEPT
     !.skillCategories = [i \in CategoryIds |-> [id |-> i, name |-> "Frontend", icon |-> "code"]],
     !.skills = [i \in SkillIds |->
                   [id |-> i, name |-> "React", categoryId |-> IF i = 1 THEN 1 ELSE Null]],
     !.contactMessages = [i \in MessageIds |->
                            [id |-> i, name |-> "Ann", email |-> "ann@x.com",
                             subject |-> "Hi", message |-> "Hello", read |-> FALSE]],
     !.experiences = [i \in ParentIds |-> [id |-> i, title |-> "Engineer"]],
     !.projects = [i \in ParentIds |-> [id |-> i, title |-> "Engineer"]]]

StoredSerial ==
  [contactMessages |-> MaxMessages, skillCategories |-> MaxCategories, skills |-> MaxSkills]

\* the social_links table with the one link POST /api/social-links stored
StoredSocialLinks == <<[id |-> 1, platform |-> "github", url |-> "https://github.com/me"]>>

\* the server in service over the filled collections
Maintained ==
  /\ started = TRUE
  /\ users = SeedUsers
  /\ siteConfig = StartedConfig
  /\ socialLinks = StoredSocialLinks
  /\ session \in Browsers
  /\ pc = [s \in Sessions |-> "idle"]
  /\ body = [s \in Sessions |-> NoBody]
  /\ req = NoBody
  /\ resp = NoResp
  /\ mail = NoMail
  /\ nextval = StoredSerial
  /\ db = StoredCollections

DeleteNext ==
  \/ \E s \in Sessions, id \in CategoryIds : DeleteSkillCategory(s, id)
  \/ \E s \in Sessions, id \in SkillIds : DeleteSkill(s, id)
  \/ \E s \in Sessions, kind \in Parents, id \in ParentIds : DeleteParent(s, kind, id)
  \/ \E s \in Sessions, id \in MessageIds : DeleteContactMessage(s, id)
  \/ \E s \in Sessions, id \in SocialLinkIds : DeleteSocialLink(s, id)

DeleteSpec == Maintained /\ [][DeleteNext]_vars

(* ------------------------------------------------------------------ *)
(* Updating the collections                                           *)
(* ------------------------------------------------------------------ *)

\* the ids the editors address: those in use and the next one of the serial
Addressable(last) == 1..(last + 1)

\* the bodies that keep the technologies or replace them with a single one
RenewalBodies == {b \in ParentBodies : Supplied(b) => Len(b.technologies) = 1}

UpdateNext ==
  \/ \E s \in Sessions, id \in Addressable(MaxCategories), data \in SkillCategoryBodies :
       UpdateSkillCategory(s, id, data)
  \/ \E s \in Sessions, id \in Addressable(MaxSkills), data \in SkillBodies :
       UpdateSkill(s, id, data)
  \/ \E s \in Sessions, id \in Addressable(MaxMessages) : MarkContactMessageAsRead(s, id)
  \/ \E s \in Sessions, kind \in Parents, id \in Addressable(MaxParents), b \in RenewalBodies :
       PutParent(s, kind, id, b)
  \/ \E s \in Sessions : DeleteTechnologies(s)
  \/ \E s \in Sessions : CreateTechnology(s)
  \/ \E s \in Sessions : GetParent(s)

UpdateSpec == Maintained /\ [][UpdateNext]_vars

(* ------------------------------------------------------------------ *)
(* Logins against stored credentials                                  *)
(* ------------------------------------------------------------------ *)

\* the salts of the stored hashes: one more than a registration here draws
StoredSalts == 1..(NumSalts + 1)

\* stored forms hashPassword never writes: no '.', nothing after the '.',
\* a key part that decodes to two bytes
MalformedForms ==
  {toHex(scryptAsync("secret1", SaltString(1))),
   toHex(scryptAsync("secret1", SaltString(1))) \o <<Dot>>,
   toHex(<<"raw", "", 2>>) \o <<Dot>> \o SaltString(1)}

\* the password column as a registration wrote it, or as an import left it
StoredForms ==
  {hashPassword(password, salt) : password \in Passwords, salt \in StoredSalts}
    \cup MalformedForms

\* the users table: the rows of SeedUsers, with any stored form
StoredUsers ==
  {[i \in 1..Len(SeedUsers) |-> [SeedUsers[i] EXCEPT !.password = forms[i]]] :
     forms \in [1..Len(SeedUsers) -> StoredForms]}

\* registerRoutes has run over these users; nobody is logged in
CredentialInit ==
  /\ started = TRUE
  /\ users \in StoredUsers
  /\ siteConfig = StartedConfig
  /\ socialLinks = <<>>
  /\ session = [s \in Sessions |-> Anonymous]
  /\ pc = [s \in Sessions |-> "idle"]
  /\ body = [s \in Sessions |-> NoBody]
  /\ req = NoBody
  /\ resp = NoResp
  /\ mail = NoMail
  /\ nextval = NoSerial
  /\ db = EmptyDb

CredentialNext ==
  \/ \E s \in Sessions, b \in LoginBodies : Login(s, b)
  \/ \E s \in Sessions : Logout(s)
  \/ \E s \in Sessions : GetUser(s)

CredentialSpec == CredentialInit /\ [][CredentialNext]_vars

(* ------------------------------------------------------------------ *)
(* Sessions of several devices                                        *)
(* ------------------------------------------------------------------ *)

\* fault: the expiry of one session drops every session of its user
ExpireSessionOfUser(s) ==
  [t \in Sessions |-> IF session[t] = session[s] THEN Anonymous ELSE session[t]]

\* cookie.maxAge has passed: the store no longer holds the session
ExpireSession(s) == [session EXCEPT ![s] = Anonymous]

\* the 24 hours of a session's cookie run out; nothing is answered
Expire(s) ==
  /\ started
  /\ pc[s] = "idle"
  /\ session[s] # Anonymous
  /\ session' = ExpireSession(s)
  /\ UNCHANGED <<started, users, siteConfig, socialLinks, pc, body, req, resp, mail, content>>

\* every user registered through hashPassword, with any salt
SessionInit ==
  /\ CredentialInit
  /\ \A u \in Rows(users) : u.password \notin MalformedForms

SessionNext ==
  \/ \E s \in Sessions, b \in LoginBodies : Login(s, b)
  \/ \E s \in Sessions : Logout(s)
  \/ \E s \in Sessions : GetUser(s)
  \/ \E s \in Sessions : Expire(s)

SessionSpec == SessionInit /\ [][SessionNext]_vars

(* ------------------------------------------------------------------ *)
(* The client's protected routes                                      *)
(* ------------------------------------------------------------------ *)

\* "/admin", character by character
AdminPrefix == <<"/", "a", "d", "m", "i", "n">>

\* paths a ProtectedRoute is mounted on: the admin pages of App.tsx and, the
\* component taking any path, some that are not admin paths
Paths ==
  {AdminPrefix, AdminPrefix \o <<"/", "s">>, AdminPrefix \o <<"x">>,
   <<"/">>, <<"/", "a", "d", "m">>, <<"/", "m", "e">>}

\* String.prototype.startsWith
startsWith(str, prefix) ==
  /\ Len(str) >= Len(prefix)
  /\ SubSeq(str, 1, Len(prefix)) = prefix

\* data of useQuery(["/api/user"]): <<>> for undefined, else the user
QueryData == {<<>>} \cup {<<userWithoutPassword(u)>> : u \in Rows(SeedUsers)}

\* what a ProtectedRoute renders inside <Route path={path}>
View(path, view, to) == [path |-> path, view |-> view, to |-> to]

\* fault: the admin check left out
ProtectedRouteAnyUser(path, isLoading, user) ==
  IF isLoading THEN View(path, "spinner", "")
  ELSE IF user = <<>> THEN View(path, "redirect", "/auth")
  ELSE View(path, "component", "")

\* ProtectedRoute({ path, component }) for a state of the /api/user query
ProtectedRoute(path, isLoading, user) ==
  LET isAdminRoute == startsWith(path, AdminPrefix)
  IN  IF isLoading THEN View(path, "spinner", "")
      ELSE IF user = <<>> THEN View(path, "redirect", "/auth")
      ELSE IF isAdminRoute /\ ~user[1].isAdmin THEN View(path, "denied", "")
      ELSE View(path, "component", "")

\* the browser of session s renders a ProtectedRoute
Render(s, path, isLoading, user) ==
  /\ started
  /\ Reply([path |-> path, isLoading |-> isLoading, user |-> user],
           Respond(s, "ProtectedRoute", 0, ProtectedRoute(path, isLoading, user)))
  /\ UNCHANGED <<started, users, siteConfig, socialLinks, session, pc, body, content>>

ClientInit ==
  /\ Serving
  /\ db = EmptyDb

ClientNext ==
  \/ \E s \in Sessions, b \in LoginBodies : Login(s, b)
  \/ \E s \in Sessions : Logout(s)
  \/ \E s \in Sessions : GetUser(s)
  \/ \E s \in Sessions, path \in Paths, isLoading \in BOOLEAN, user \in QueryData :
       Render(s, path, isLoading, user)

ClientSpec == ClientInit /\ [][ClientNext]_vars

(* ------------------------------------------------------------------ *)
(* Properties                                                         *)
(* ------------------------------------------------------------------ *)

\* the tables and the session store
Store == <<users, siteConfig, socialLinks, session>>

\* session s took the step and answered on this route
Answered(s, route) ==
  /\ pc[s] = "idle"
  /\ resp'.session = s
  /\ resp'.route = route

\* the handler of session s moved on from position p
Left(s, p) == pc[s] = p /\ pc'[s] # p

GatedRoutes == {"admin/site-config", "social-links"}

\* C1: every request to an admin-gated route is answered 401 when the
\* session is bound to no user and 403 when it is bound to a user who is not
\* an administrator, in both cases leaving the store unchanged; otherwise it
\* passes the gate.
C1_AdminGate ==
  [][\A s \in Sessions : \A route \in GatedRoutes :
       Answered(s, route) =>
         IF ~isAuthenticated(s)
         THEN resp'.status = 401 /\ UNCHANGED Store
         ELSE IF ~ReqUser(s).isAdmin
         THEN resp'.status = 403 /\ UNCHANGED Store
         ELSE resp'.status \notin {401, 403}]_vars

\* C2: while there are no users, a registration without admin intent is
\* rejected with the bootstrap error and creates no row and no session, and a
\* registration with admin intent and the stored setup key passes every check,
\* is answered 201, and leaves checkAdminExists true.
C2_Bootstrap ==
  [][\A s \in Sessions :
       users = <<>> =>
         /\ ~Answered(s, "register")
         /\ Left(s, "checkEmail") => pc'[s] = "gate"
         /\ Left(s, "gate") =>
              IF body[s].isAdmin
              THEN body[s].setupKey = siteConfig[1].setupKey => pc'[s] = "create"
              ELSE /\ pc'[s] = "idle"
                   /\ resp' = Respond(s, "register", 400,
                                      Message("Please create an admin account first"))
                   /\ UNCHANGED Store
         /\ Left(s, "create") =>
              /\ body[s].isAdmin
              /\ resp'.session = s
              /\ resp'.status = 201
              /\ Len(users') = 1
              /\ checkAdminExists']_vars

C2_FirstAdminRegistered ==
  /\ resp.route = "register"
  /\ resp.status = 201
  /\ Len(users) = 1
  /\ checkAdminExists

\* C3: whenever a user exists an administrator exists, and the first user
\* ever created is an administrator.
C3_AdminFirst ==
  users # <<>> => (users[1].isAdmin /\ checkAdminExists)

C3_RegularUserExists == \E u \in Rows(users) : ~u.isAdmin

\* C4: a registration with admin intent passes the gate exactly when its
\* setup key is present and equals the key stored in SiteConfig at that
\* moment; otherwise it is answered 403 and no row or session is created.
\* Only a request that passed the gate inserts a row, with its own isAdmin.
C4_SetupKey ==
  [][/\ \A s \in Sessions :
          /\ (Left(s, "gate") /\ body[s].isAdmin) =>
               IF body[s].setupKey # "" /\ body[s].setupKey = siteConfig[1].setupKey
               THEN pc'[s] = "create" /\ UNCHANGED Store
               ELSE /\ pc'[s] = "idle"
                    /\ resp' = Respond(s, "register", 403, Message("Invalid setup key"))
                    /\ UNCHANGED Store
          /\ (pc[s] # "create" /\ pc'[s] = "create") =>
               /\ pc[s] = "gate"
               /\ body'[s] = body[s]
     /\ users' # users =>
          \E s \in Sessions :
            /\ Left(s, "create")
            /\ Len(users') = Len(users) + 1
            /\ users'[Len(users')].isAdmin = body[s].isAdmin]_vars

\* a registration passed the gate with a key that an admin had set
C4_NewKeyAccepted ==
  \E s \in Sessions :
    /\ pc[s] = "create"
    /\ body[s].isAdmin
    /\ body[s].setupKey = "newkey"

\* C5: a registration whose username or email belongs to an existing user is
\* answered 400 with the conflict message, inserts no row and leaves the
\* session as it was; existing users are never removed or changed.
C5_Conflict ==
  [][/\ \A s \in Sessions :
          /\ (pc[s] = "idle" /\ pc'[s] = "checkEmail") =>
               getUserByUsername(body'[s].username) = {}
          /\ Answered(s, "register") =>
               /\ getUserByUsername(req'.username) # {}
               /\ resp' = Respond(s, "register", 400, Message("Username already exists"))
               /\ UNCHANGED Store
          /\ Left(s, "checkEmail") =>
               IF getUserByEmail(body[s].email) # {}
               THEN /\ pc'[s] = "idle"
                    /\ resp' = Respond(s, "register", 400, Message("Email already exists"))
                    /\ UNCHANGED Store
               ELSE pc'[s] = "gate"
     /\ Len(users') >= Len(users)
     /\ SubSeq(users', 1, Len(users)) = users]_vars

C5_EmailConflictAnswered ==
  \E s \in Sessions :
    resp = Respond(s, "register", 400, Message("Email already exists"))

\* C6: no two user rows share a username, and no two share an email.
C6_Unique ==
  \A i, j \in 1..Len(users) :
    i # j => /\ users[i].username # users[j].username
             /\ users[i].email # users[j].email

\* an insert lost the race and was refused by the table
C6_RaceRefused ==
  /\ resp.route = "register"
  /\ resp.status = 500

\* C7: a registration answered 201 has inserted one row whose password is
\* the hash of the submitted password, has bound the session to the new user,
\* and GET /api/user on that session now answers 200 with that user.
C7_AutoLogin ==
  [][\A s \in Sessions :
       (Left(s, "create") /\ resp'.status = 201) =>
         LET row == users'[Len(users')]
         IN  /\ users' = Append(users, row)
             /\ \E salt \in Salts : row.password = hashPassword(body[s].password, salt)
             /\ session'[s] = row.id
             /\ resp'.session = s
             /\ resp'.json = [id |-> row.id, username |-> body[s].username,
                              email |-> body[s].email, isAdmin |-> body[s].isAdmin]
             /\ UserResponse(s)' = Respond(s, "user", 200, resp'.json)]_vars

C7_Registered ==
  /\ resp.route = "register"
  /\ resp.status = 201
  /\ session[resp.session] = resp.json.id
  /\ UserResponse(resp.session).json = resp.json

\* C8: a login with an unknown username and a login with a known username
\* and a password that does not verify get the same 401 "Invalid
\* credentials" and leave the session as it was; the session is bound to a
\* user exactly when the username exists and the password verifies against
\* that user's stored hash.
C8_Login ==
  [][\A s \in Sessions :
       Answered(s, "login") =>
         LET verified == {u \in Rows(users) :
                            /\ u.username = req'.username
                            /\ comparePasswords(req'.password, u.password)}
         IN  IF verified = {}
             THEN /\ resp' = Respond(s, "login", 401, Message("Invalid credentials"))
                  /\ UNCHANGED Store
             ELSE /\ resp'.status = 200
                  /\ \E u \in verified : session'[s] = u.id]_vars

\* a known username with a wrong password was answered
C8_WrongPassword ==
  /\ resp.route = "login"
  /\ resp.status = 401
  /\ getUserByUsername(req.username) # {}
  /\ session[resp.session] = Anonymous

\* C9: once a logout has completed on an authenticated session, the session
\* is anonymous and GET /api/user and every admin gate answer 401 on it; it
\* stays anonymous until a login or a registration succeeds on it.
C9_Logout ==
  [][\A s \in Sessions :
       /\ (isAuthenticated(s) /\ Answered(s, "logout")) =>
            /\ session'[s] = Anonymous
            /\ UserResponse(s)'.status = 401
            /\ checkAdmin(s)' = 401
            /\ isAdmin(s)' = 401
       /\ (session[s] = Anonymous /\ session'[s] # Anonymous) =>
            /\ resp'.session = s
            /\ resp'.route \in {"login", "register"}
            /\ resp'.status \in {200, 201}]_vars

\* C10: no response of register, login or GET /api/user has a password
\* field; a successful one carries exactly the public fields of the user row.
C10_NoPassword ==
  resp.route \in {"register", "login", "user"} =>
    /\ "password" \notin DOMAIN resp.json
    /\ resp.status \in {200, 201} =>
         \E u \in Rows(users) :
           resp.json = [id |-> u.id, username |-> u.username,
                        email |-> u.email, isAdmin |-> u.isAdmin]

C10_UserReturned ==
  /\ resp.route = "user"
  /\ resp.status = 200

\* the site_config table with the stored setup key replaced by k
WithSetupKey(table, k) ==
  IF table = <<>> THEN <<>> ELSE <<[table[1] EXCEPT !.setupKey = k]>>

\* C11: no response of GET /api/site-config or of PATCH
\* /api/admin/site-config has a setupKey field, and the response is the one
\* the same request gets over a store holding any other setup key.
C11_KeyHidden ==
  [][\A s \in Sessions :
       /\ Answered(s, "site-config") =>
            /\ "setupKey" \notin DOMAIN resp'.json
            /\ \A k \in Keys :
                 resp' = GetSiteConfigResponse(s, WithSetupKey(siteConfig, k))
       /\ Answered(s, "admin/site-config") =>
            /\ "setupKey" \notin DOMAIN resp'.json
            /\ \E valid \in BOOLEAN, data \in SiteConfigBodies :
                 \A k \in Keys :
                   resp' = PatchSiteConfigResponse(s, WithSetupKey(siteConfig, k),
                                                   valid, data)]_vars

\* the public configuration was served while a non-default key is stored
C11_ServedAfterKeyChange ==
  /\ resp.route = "site-config"
  /\ resp.status = 200
  /\ siteConfig[1].setupKey = "newkey"

\* the handler of POST /api/contact on session s took this step after
\* storing the message
Notifying(s) ==
  /\ pc[s] \in {"getContactInfo", "createContactInfo"}
  /\ pc'[s] # pc[s]

C13_FailureReported ==
  [][\A s \in Sessions :
       (/\ resp'.session = s
        /\ resp'.route \in {"contact", "contact-form"}
        /\ mail'.outcome = "failed") =>
         /\ resp'.status >= 400
         /\ contactMessages' = contactMessages]_vars

\* C14: POST /api/contact stores a message and hands a notification to the
\* mailer only for a body with the four fields and a well-formed email; any
\* other body is answered 400, stores nothing and sends nothing.
C14_Validated ==
  [][\A s \in Sessions :
       /\ (pc[s] = "idle" /\ pc'[s] = "getContactInfo") =>
            body'[s].data.email \in WellFormedEmails
       /\ ((Answered(s, "contact") \/ Answered(s, "contact-form"))
            /\ ~(/\ ContactFields \subseteq DOMAIN req'
                 /\ req'.email \in WellFormedEmails)) =>
            /\ resp'.status = 400
            /\ mail' = NoMail
            /\ UNCHANGED db]_vars

\* C15: a contact message is inserted unread under a fresh id; an
\* existing message stays as it is, or has read set from FALSE to TRUE, or
\* is removed by a DELETE that passed the admin gate; read never goes back
\* to FALSE.
C15_ReadOnce ==
  [][/\ \A row \in Rows(contactMessages) :
          \/ row \in Rows(contactMessages')
          \/ /\ ~row.read
             /\ [row EXCEPT !.read = TRUE] \in Rows(contactMessages')
          \/ /\ \A new \in Rows(contactMessages') : new.id # row.id
             /\ \E s \in Sessions :
                  /\ Answered(s, "admin/contact-messages")
                  /\ resp'.status = 204
                  /\ isAuthenticated(s)
                  /\ ReqUser(s).isAdmin
     /\ \A new \in Rows(contactMessages') :
          (\A row \in Rows(contactMessages) : row.id # new.id) =>
            /\ ~new.read
            /\ new.id > nextval.contactMessages
     /\ \A i, j \in 1..Len(contactMessages') :
          i # j => contactMessages'[i].id # contactMessages'[j].id]_vars

\* an older message was marked read while a newer one is stored
C15_OlderMarkedRead ==
  /\ resp.route = "admin/contact-messages/read"
  /\ resp.status = 200
  /\ \E row \in Rows(contactMessages) :
       row.read /\ row.id = req.id /\ row.id < nextval.contactMessages

\* C16: each singleton table holds at most one row.
C16_AtMostOne ==
  /\ Len(siteConfig) <= 1
  /\ Len(portfolioInfo) <= 1
  /\ \A t \in LazyTables : Len(db[t]) <= 1

\* C17: a read that found its table empty inserts one row holding the
\* defaults and answers with it; a read that finds a row inserts nothing,
\* and when the previous step was also an answered read of that table it
\* answers with the same row.
C17_Idempotent ==
  [][\A s \in Sessions : \A t \in LazyTables :
       /\ (pc[s] = "create" /\ body[s].table = t /\ ~body[s].update /\ pc'[s] = "idle") =>
            /\ resp'.session = s
            /\ DOMAIN resp'.json = {"id"} \cup DOMAIN Defaults(t)
            /\ \A f \in DOMAIN Defaults(t) : resp'.json[f] = Defaults(t)[f]
            /\ db' = [db EXCEPT ![t] = Append(@, resp'.json)]
       /\ (Answered(s, RouteOf(t)) /\ resp'.status = 200) =>
            /\ UNCHANGED db
            /\ (resp.route = RouteOf(t) /\ resp.status = 200) =>
                 resp'.json = resp.json]_vars

\* C18: a singleton table gets its first row only from a read, and an
\* update that found the table empty ends with an error status and writes
\* nothing.
C18_UpdateFails ==
  [][/\ \A t \in LazyTables \cup {"portfolioInfo"} :
          (db[t] = <<>> /\ db'[t] # <<>>) =>
            \E s \in Sessions :
              /\ pc[s] = "create"
              /\ body[s].table = t
              /\ ~body[s].update
     /\ \A s \in Sessions :
          (/\ \/ pc[s] = "create" /\ body[s].update
              \/ pc[s] = "upsert" /\ body[s].existing = 0
           /\ pc'[s] # pc[s]) =>
            /\ resp'.session = s
            /\ resp'.status >= 400
            /\ UNCHANGED db]_vars

\* C19: a DELETE of a skill category that passed the gate removes that
\* category and exactly the skills whose categoryId is its id, keeping the
\* other categories and skills as they are and in order; after every step
\* each skill with a categoryId references a stored category.
C19_Cascade ==
  [][/\ \A s \in Sessions :
          (Answered(s, "admin/skill-categories/:id") /\ resp'.status = 204) =>
            /\ skillCategories' =
                 SelectSeq(skillCategories, LAMBDA row : row.id # req'.id)
            /\ skills' = SelectSeq(skills, LAMBDA row : row.categoryId # req'.id)
     /\ \A skill \in Rows(skills') :
          skill.categoryId # Null =>
            \E category \in Rows(skillCategories') : category.id = skill.categoryId]_vars

\* a category was deleted with its skill while another category keeps its own
C19_CascadedOne ==
  /\ resp.route = "admin/skill-categories/:id"
  /\ resp.status = 204
  /\ nextval.skills = 2
  /\ Len(skills) = 1
  /\ skills[1].categoryId # Null
  /\ skills[1].categoryId # req.id
  /\ Len(skillCategories) = 1

\* C20: when a PUT of an experience or a project that carried a
\* technologies array is answered, the child rows of that parent are the
\* names of the array, in order, and the answer lists them.
C20_Replaced ==
  [][\A s \in Sessions :
       (/\ pc[s] = "getParent"
        /\ pc'[s] = "idle"
        /\ body[s].status = 200
        /\ Supplied(body[s].body)) =>
         /\ TechnologyNames(body[s].kind, body[s].id) = body[s].body.technologies
         /\ resp'.json.technologies = body[s].body.technologies]_vars

\* the table and the id a DELETE route addresses
DeleteRoutes ==
  {[route |-> "admin/skill-categories/:id", table |-> "skillCategories"],
   [route |-> "admin/skills/:id", table |-> "skills"],
   [route |-> "admin/experiences/:id", table |-> "experiences"],
   [route |-> "admin/projects/:id", table |-> "projects"],
   [route |-> "admin/contact-messages", table |-> "contactMessages"],
   [route |-> "social-links", table |-> "socialLinks"]}

CollectionOf(d) == IF d.table = "socialLinks" THEN socialLinks ELSE db[d.table]

\* C21: a DELETE on a collection that passed the gate answers 204; it
\* removes the rows with the addressed id (and, for a skill category, its
\* skills) and nothing else, so an id that is not stored leaves every table
\* as it is, and the same DELETE on the state it leaves removes nothing.
C21_DeleteIdempotent ==
  [][\A s \in Sessions : \A d \in DeleteRoutes :
       (Answered(s, d.route) /\ resp'.status \notin {401, 403}) =>
         LET id == req'.id
             kept == SelectSeq(CollectionOf(d), LAMBDA row : row.id # id)
             cascaded == IF d.table = "skillCategories"
                         THEN SelectSeq(skills, LAMBDA row : row.categoryId # id)
                         ELSE skills
             after == IF d.table = "socialLinks" THEN db
                      ELSE IF d.table = "skillCategories"
                      THEN [db EXCEPT !.skillCategories = kept, !.skills = cascaded]
                      ELSE [db EXCEPT ![d.table] = kept]
         IN  /\ resp'.status = 204
             /\ db' = after
             /\ socialLinks' = IF d.table = "socialLinks" THEN kept ELSE socialLinks
             /\ UNCHANGED <<users, siteConfig, session, nextval>>
             /\ (\A row \in Rows(CollectionOf(d)) : row.id # id) =>
                  UNCHANGED <<db, socialLinks>>
             /\ SelectSeq(CollectionOf(d)', LAMBDA row : row.id # id) = CollectionOf(d)'
             /\ d.table = "skillCategories" =>
                  SelectSeq(skills', LAMBDA row : row.categoryId # id) = skills']_vars

\* a DELETE of the first skill was answered 204 after the skill had gone
\* with its category, while another skill is stored
C21_DeletedAbsent ==
  /\ resp.route = "admin/skills/:id"
  /\ resp.status = 204
  /\ req.id = 1
  /\ \A category \in Rows(skillCategories) : category.id # 1
  /\ skills # <<>>

\* the table an update route addresses
UpdateRoutes ==
  {[route |-> "PATCH admin/skill-categories/:id", table |-> "skillCategories"],
   [route |-> "PATCH admin/skills/:id", table |-> "skills"],
   [route |-> "admin/contact-messages/read", table |-> "contactMessages"],
   [route |-> "experiences", table |-> "experiences"],
   [route |-> "projects", table |-> "projects"]}

\* the body of an answered update fails the schema of its route
Unparsed(u) ==
  \/ u.table = "skillCategories" /\ ~insertSkillCategorySchema(req'.data)
  \/ u.table = "skills" /\ ~insertSkillSchema(req'.data)

SkillWriteRoutes ==
  {"admin/skill-categories", "PATCH admin/skill-categories/:id",
   "admin/skills", "PATCH admin/skills/:id", "skills"}

\* the body that arrived with the answered request
Submitted == IF "data" \in DOMAIN req' THEN req'.data ELSE req'

\* the body of the request answered on this route passes the route's schema
Parsed(route) ==
  IF route \in {"admin/skill-categories", "PATCH admin/skill-categories/:id"}
  THEN insertSkillCategorySchema(Submitted)
  ELSE insertSkillSchema(Submitted)

\* C23: a create or update of a skill or a skill category that passed the
\* gate with a body failing the schema is answered 400 and writes nothing;
\* a request on these routes changes the store only with a body that passes.
C23_Validated ==
  [][\A s \in Sessions : \A route \in SkillWriteRoutes :
       (Answered(s, route) /\ resp'.status \notin {401, 403}) =>
         /\ ~Parsed(route) => (resp'.status = 400 /\ UNCHANGED content)
         /\ ~UNCHANGED content => Parsed(route)]_vars

\* C24: a stored form that hashPassword wrote for password p, with any
\* salt, verifies p and no other password without rejecting, so a login with
\* that username is answered 200 for p and 401 for every other password.
C24_RoundTrip ==
  [][\A u \in Rows(users) : \A p \in Passwords : \A salt \in StoredSalts :
       u.password = hashPassword(p, salt) =>
         /\ \A p2 \in Passwords :
              /\ ~comparePasswordsThrows(p2, u.password)
              /\ comparePasswords(p2, u.password) <=> p2 = p
         /\ \A s \in Sessions :
              (Answered(s, "login") /\ req'.username = u.username) =>
                IF req'.password = p
                THEN resp'.status = 200 /\ session'[s] = u.id
                ELSE /\ resp' = Respond(s, "login", 401, Message("Invalid credentials"))
                     /\ UNCHANGED session]_vars

\* a login was accepted against a hash with a salt other than the first
C24_OtherSaltVerified ==
  /\ resp.route = "login"
  /\ resp.status = 200
  /\ \E u \in getUserByUsername(req.username) :
       \E salt \in StoredSalts \ {1} : u.password = hashPassword(req.password, salt)

\* C25: comparePasswords does not reject a malformed stored form, and a
\* login against a user with such a form is answered 401 "Invalid
\* credentials" and leaves the session as it was.
C25_MalformedIsMismatch ==
  [][\A u \in Rows(users) :
       u.password \in MalformedForms =>
         /\ \A p \in Passwords : ~comparePasswordsThrows(p, u.password)
         /\ \A s \in Sessions :
              (Answered(s, "login") /\ req'.username = u.username) =>
                /\ resp' = Respond(s, "login", 401, Message("Invalid credentials"))
                /\ UNCHANGED session]_vars

\* the PUT of session w is replacing the technologies of this parent
Replacing(w, kind, id) ==
  /\ pc[w] \in {"deleteTechnologies", "createTechnology", "getParent"}
  /\ body[w].kind = kind
  /\ body[w].id = id
  /\ body[w].status = 200
  /\ Supplied(body[w].body)

\* C26: a read of an experience or a project that is answered while one
\* request is replacing its technologies lists a complete list that a
\* request supplied, never a part of one.
C26_NoPartialRead ==
  [][\A s \in Sessions : \A kind \in Parents :
       (/\ Answered(s, ReadRoute(kind))
        /\ resp'.status = 200
        /\ \E w \in Sessions \ {s} : Replacing(w, kind, req'.id)) =>
         resp'.json.technologies \in TechLists]_vars

\* C27: a step that changes the user one session is bound to is a login or
\* logout answered on that session or its expiry, and it leaves every other
\* session bound as it was, also one bound to the same user; no login,
\* logout, expiry or read of the current user changes a row of users.
C27_Independent ==
  [][/\ users' = users
     /\ \A t \in Sessions :
          session'[t] # session[t] =>
            /\ \A s \in Sessions \ {t} : session'[s] = session[s]
            /\ \/ resp'.session = t /\ resp'.route \in {"login", "logout"}
               \/ UNCHANGED resp /\ session'[t] = Anonymous]_vars

\* one of two sessions of the same user has gone, the other is still bound
C27_OtherDeviceStays ==
  /\ resp.route = "login"
  /\ resp.status = 200
  /\ \E s \in Sessions : \E t \in Sessions \ {s} :
       /\ resp.session = s
       /\ session[s] = Anonymous
       /\ session[t] = resp.json.id

\* C28: a start of the process writes the site_config row with the default
\* setup key when the table is empty and only then; a start over an existing
\* row, and the end of the process, leave the table as it was, so a key an
\* administrator set is still the key after a restart.
C28_StartupKeepsConfig ==
  [][started' # started =>
       IF started' /\ siteConfig = <<>>
       THEN /\ Len(siteConfig') = 1
            /\ siteConfig'[1].setupKey = DefaultSetupKey
       ELSE siteConfig' = siteConfig]_vars

\* the key an administrator set is the key after the process restarted
C28_PatchedKeySurvived ==
  /\ started
  /\ resp.route = "admin/site-config"
  /\ resp.status = 200
  /\ session[resp.session] = Anonymous
  /\ siteConfig # <<>>
  /\ siteConfig[1].setupKey = "newkey"

\* C29: every step leaves each existing user with the isAdmin it had, and a
\* row added with isAdmin true is added by a registration that asked for it
\* and is past the setup-key check, which lets a request with admin intent
\* through only with the stored key; a row is never removed.
C29_AdminFlagFixed ==
  [][/\ Len(users') >= Len(users)
     /\ \A i \in 1..Len(users) : users'[i].isAdmin = users[i].isAdmin
     /\ \A i \in (Len(users) + 1)..Len(users') :
          users'[i].isAdmin =>
            \E s \in Sessions : Left(s, "create") /\ body[s].isAdmin
     /\ \A s \in Sessions :
          (pc'[s] = "create" /\ pc[s] # "create" /\ body'[s].isAdmin) =>
            /\ pc[s] = "gate"
            /\ body[s] = body'[s]
            /\ siteConfig # <<>>
            /\ body[s].setupKey # ""
            /\ body[s].setupKey = siteConfig[1].setupKey]_vars

\* a registration asking for isAdmin without the key was refused while an
\* administrator and a regular user exist, each with its flag
C29_RefusedBesideUsers ==
  /\ resp.route = "register"
  /\ resp.status = 403
  /\ Len(users) = 2
  /\ users[1].isAdmin
  /\ ~users[2].isAdmin

\* the path is "/admin" followed by anything
UnderAdmin(path) ==
  \E n \in 0..Len(path) : path = AdminPrefix \o SubSeq(path, n + 1, Len(path))

\* C30: ProtectedRoute renders the component exactly when the query is not
\* loading, returned a user and, on a path that starts with /admin, the user
\* is an administrator; while loading it renders the spinner, without a user
\* the redirect to /auth, and for another user on an admin path Access Denied.
C30_ProtectedRoute ==
  resp.route = "ProtectedRoute" =>
    LET view == resp.json.view
        granted == /\ ~req.isLoading
                   /\ req.user # <<>>
                   /\ UnderAdmin(req.path) => req.user[1].isAdmin
    IN  /\ resp.json.path = req.path
        /\ view = "component" <=> granted
        /\ req.isLoading => view = "spinner"
        /\ (~req.isLoading /\ req.user = <<>>) =>
             (view = "redirect" /\ resp.json.to = "/auth")
        /\ (~req.isLoading /\ req.user # <<>> /\ ~granted) => view = "denied"

\* a user who is no administrator was denied a page below /admin
C30_DeniedBelowAdmin ==
  /\ resp.route = "ProtectedRoute"
  /\ resp.json.view = "denied"
  /\ Len(req.path) > Len(AdminPrefix)
  /\ req.user # <<>>

====
